---- MODULE Spec2Model ----
(***************************************************************************)
(* Model of the cycle/run orchestration engine of apex-ai:                 *)
(*   runBacktestLive        (src/lib/backtest/runner.ts)                   *)
(*   the SSE start route    (src/app/api/backtest/start/route.ts)          *)
(*   TradingEngine          (src/lib/services/trading-engine.ts)           *)
(*   PortfolioCalculator    (src/lib/services/portfolio-calculator.ts)     *)
(* Money is in whole units; an average cost is an exact fraction.          *)
(***************************************************************************)
EXTENDS Integers, Sequences, FiniteSets, TLC

\* ---------------------------------------------------------------- bounds
\* last calendar day a run may cover (day 1 is a Sunday, see isWeekend)
MaxDay == 3
\* highest price (per share) a feed or the broker quotes
MaxPrice == 2
\* largest share count a decision asks for
MaxShares == 3
\* most cycles one run executes (over all its trading days)
MaxCycles == 2

\* ------------------------------------------------------ program constants
\* processModel: const maxAttempts = 3
maxAttempts == 3
\* seed: cashBalance = initialValue (100000 in the seed, scaled to 10 units)
InitialCapital == 10
\* seed: maxPositionSize 0.3, kept as the fraction 3/10
MaxPositionNum == 3
MaxPositionDen == 10
\* validateDecision: const allowedLeverages = [1, 5, 10, 20]
allowedLeverages == {1, 5, 10, 20}
\* runner: 375-minute session, 1440 minutes = one cycle per day
SessionMinutes == 375
DayMinutes == 1440

\* active models in the order prisma.model.findMany returns them
activeModels == <<"m1", "m2">>
ModelIds == {activeModels[i] : i \in 1..Len(activeModels)}
\* config.watchlist of every model; "X" is a ticker outside it, "NULL" is null
Watchlist == {"T1"}
Prices == 1..MaxPrice

\* ------------------------------------------------------------- arithmetic
RECURSIVE GCD(_, _)
GCD(a, b) == IF b = 0 THEN a ELSE GCD(b, a % b)

\* a fraction n/d in lowest terms (d > 0)
Frac(n, d) == LET g == GCD(n, d) IN [n |-> n \div g, d |-> d \div g]

\* isWeekend(current) of date-fns, with day 1 a Sunday: days 0,1 (mod 7) are
\* Saturday and Sunday
isWeekend(d) == (d % 7) \in {0, 1}

\* Math.floor(375 / 0) is Infinity: a count above every value the cycle
\* counter of the model takes
Infinity == MaxCycles + 2

\* runner.ts line 39: Math.floor(375 / intervalMinutes) below a full day, also
\* for 0 (Infinity) and for a negative interval (a negative count), else 1
cyclesPerDayOf(intervalMinutes) ==
    IF intervalMinutes >= DayMinutes THEN 1
    ELSE IF intervalMinutes > 0 THEN SessionMinutes \div intervalMinutes
    ELSE IF intervalMinutes = 0 THEN Infinity
    ELSE 0 - ((SessionMinutes - intervalMinutes - 1) \div (0 - intervalMinutes))

\* ------------------------------------------------------------- decisions
HoldDecision == [action |-> "HOLD", ticker |-> "NULL", shares |-> 0, leverage |-> 1]
NoDecision == [action |-> "NONE", ticker |-> "NULL", shares |-> 0, leverage |-> 1]

\* what the decision provider can answer (after parsing)
Decisions ==
    {HoldDecision}
    \cup {[action |-> "BUY", ticker |-> "T1", shares |-> s, leverage |-> 1] :
             s \in 0..MaxShares}
    \cup {[action |-> "BUY", ticker |-> "T1", shares |-> 1, leverage |-> 5],
          [action |-> "BUY", ticker |-> "T1", shares |-> 1, leverage |-> 3],
          [action |-> "BUY", ticker |-> "X", shares |-> 1, leverage |-> 1],
          [action |-> "BUY", ticker |-> "NULL", shares |-> 1, leverage |-> 1]}
    \cup {[action |-> "SELL", ticker |-> "T1", shares |-> s, leverage |-> 1] :
             s \in 1..MaxShares}

\* the answers of the provider behind each model: the first model's provider
\* answers anything above, the others' a hold, a one-share buy or a one-share sell
BasicDecisions ==
    {HoldDecision,
     [action |-> "BUY", ticker |-> "T1", shares |-> 1, leverage |-> 1],
     [action |-> "SELL", ticker |-> "T1", shares |-> 1, leverage |-> 1]}
DecisionsOf(m) == IF m = activeModels[1] THEN Decisions ELSE BasicDecisions

\* ------------------------------------------------------------------ state
VARIABLES
    \* --- runBacktestLive
    pc,                   \* position of the run / cycle / processModel
    startDay, endDay,     \* params.startDate, params.endDate
    intervalMinutes,      \* params.intervalMinutes
    status,               \* BacktestRun.status ("NONE" before the row exists)
    statusLog,            \* every status written to the BacktestRun row, in order
    runTradingDays,       \* BacktestRun.tradingDays (-1 = not written)
    current,              \* let current
    cycle,                \* for (let cycle = 1; ...)
    tradingDaysProcessed, \* let tradingDaysProcessed
    committedDays,        \* number of end-of-day transactions committed
    lastPortfolios,       \* let lastPortfolios: modelId -> totalValue, or <<>>
    runModels,            \* BacktestRunModel rows: modelId -> [totalValue, rank]
    runSnapshots,         \* BacktestRunSnapshot rows: set of <<modelId, day>>
    \* --- abort signal and event sink (route.ts)
    signalAborted,        \* req.signal.aborted
    listenerOn,           \* runner's abortHandler is registered
    aborted,              \* let aborted
    abortedInLoop,        \* the abort event fired while the day loop was running
    sinkClosed,           \* controller.close() was called: enqueue now throws
    \* --- executeTradingCycle
    agentIdx,             \* index into activeModels
    processed, errors,    \* let processed, let errors
    visited,              \* models whose processModel call was made this cycle
    dataFetchFailed,      \* getMarketData threw in some cycle of this run
    marketData,           \* the prices getMarketData gave the cycle in progress
    \* --- processModel
    attempt, decision, previousDecision, validationFeedback, validation,
    requestCount,         \* getModelDecision calls made by this processModel
    lastRequest,          \* feedback section of the prompt of the latest call
    \* --- ledger (Portfolio + Position rows), trades, snapshots
    cash,                 \* modelId -> Portfolio.cashBalance
    positions,            \* modelId -> (held ticker -> [shares, avgCost])
    trade,                \* Trade row of the executeTrade call in progress
    tradePre,             \* ledger as it was when that Trade row was created
    tradesThisCycle,      \* modelId -> Trade rows created in this cycle
    snapsThisCycle,       \* modelId -> PortfolioSnapshot rows written this cycle
    snapshot,             \* PortfolioSnapshot row written by this processModel
    minCashLimit,         \* modelId -> lowest -(leverage-1)*initialValue validated
    \* --- prices
    lastKnown,            \* latest MarketData row per ticker (0 = none)
    enginePriceCache,     \* priceCache of the engine's PortfolioCalculator
    runnerPriceCache,     \* priceCache of the runner's PortfolioCalculator
    freshInCache,         \* tickers whose engine priceCache entry was resolved in
                          \* the cycle in progress
    \* --- services behind the run, and an earlier execution
    stub,                 \* the services: fixed stubs, or services that answer freely
    runTrades,            \* Trade rows created by this execution under fixed stubs
    firstRun,             \* what an earlier execution under the same stubs ended with
    checked,              \* a call of validateDecision or of getModelDecision on its
                          \* own: arguments and result
    conc                  \* two requests trading for the first agent at the same
                          \* time: the ledger they found and each one's position
                          \* in validateDecision / executeTrade / updatePortfolio

replayVars == <<stub, firstRun, checked, conc>>
runVars == <<replayVars, startDay, endDay, intervalMinutes, status, statusLog, runTradingDays,
             current, cycle, tradingDaysProcessed, committedDays, lastPortfolios,
             runModels, runSnapshots>>
sinkVars == <<signalAborted, listenerOn, aborted, abortedInLoop, sinkClosed>>
cycleVars == <<agentIdx, processed, errors, visited, dataFetchFailed, marketData>>
pmVars == <<attempt, decision, previousDecision, validationFeedback, validation,
           requestCount, lastRequest>>
ledgerVars == <<cash, positions>>
tradeVars == <<trade, tradePre, tradesThisCycle, runTrades>>
snapVars == <<snapsThisCycle, snapshot>>
priceVars == <<lastKnown, enginePriceCache, runnerPriceCache, freshInCache>>

vars == <<pc, runVars, sinkVars, cycleVars, pmVars, ledgerVars, tradeVars, snapVars,
          minCashLimit, priceVars>>

\* ---------------------------------------------------------- event sink
\* SsePublisher.publish -> write -> controller.enqueue, which throws once the
\* route's abort listener has called controller.close()
PublishThrows(closed) == closed

\* ------------------------------------------------------------ market data
NoPrices == [t \in Watchlist |-> 0]

\* tickers of the agents' watchlists that no decision above names: the cycle
\* asks the feed for them too
OtherWatched == {"T2"}

\* what the feeds of DataService.getMarketData can do in one call: a live quote
\* (Kite or Yahoo) for every ticker asked, a live quote for the other watched
\* tickers only (fetchFromKite and fetchFromYahoo leave out a ticker that has
\* no quote), both feeds down with recent MarketData rows, both feeds down
FetchOutcomes ==
    {[kind |-> "live", prices |-> f] : f \in [Watchlist -> Prices]}
    \cup {[kind |-> "partial", prices |-> NoPrices],
          [kind |-> "cached", prices |-> NoPrices],
          [kind |-> "throw", prices |-> NoPrices]}

\* DataService.getMarketData(tickers): the live quotes when there is any
\* (stored by cacheMarketData), else the cached MarketData rows when there are
\* any, else it throws
getMarketData(tickers, lk, o) ==
    LET quoted == IF o.kind = "live" THEN tickers
                  ELSE IF o.kind = "partial" THEN tickers \cap OtherWatched
                  ELSE {}
        live == [t \in Watchlist |-> IF t \in quoted THEN o.prices[t] ELSE 0]
    IN  IF quoted # {}
        THEN [threw |-> FALSE, prices |-> live,
              lastKnown |-> [t \in Watchlist |-> IF t \in quoted THEN live[t] ELSE lk[t]]]
        ELSE IF o.kind # "throw" /\ \A t \in Watchlist : lk[t] # 0
        THEN [threw |-> FALSE, prices |-> lk, lastKnown |-> lk]
        ELSE [threw |-> TRUE, prices |-> NoPrices, lastKnown |-> lk]

\* PortfolioCalculator.resolvePriceMap: price cache, then a fetch of the missing
\* tickers, then the latest MarketData row; 0 = no price resolved
resolvePriceMap(cache, tickers, o, lk) ==
    LET missing == {t \in tickers : cache[t] = 0}
        md == getMarketData(missing, lk, o)
        first(t) == IF cache[t] # 0 THEN cache[t] ELSE md.prices[t]
        final(t) == IF first(t) # 0 THEN first(t) ELSE lk[t]
    IN  [resolved |-> [t \in tickers |-> final(t)],
         cache |-> [t \in Watchlist |-> IF t \in tickers THEN final(t) ELSE cache[t]],
         lastKnown |-> IF missing # {} THEN md.lastKnown ELSE lk]

RECURSIVE SumOver(_, _)
SumOver(S, f) ==
    IF S = {} THEN 0
    ELSE LET x == CHOOSE y \in S : TRUE IN f[x] + SumOver(S \ {x}, f)

\* the tickers resolvePriceMap has put into the cache (lines 305 and 318)
Cached(cache, after) == {t \in Watchlist : cache[t] = 0 /\ after[t] # 0}

\* PortfolioCalculator.calculateTotalValue
calculateTotalValue(cashBalance, pos, cache, o, lk) ==
    LET tickers == DOMAIN pos
        r == resolvePriceMap(cache, tickers, o, lk)
        value == [t \in tickers |->
                    IF r.resolved[t] # 0 THEN r.resolved[t] * pos[t].shares ELSE 0]
        positionsValue == SumOver(tickers, value)
    IN  [totalValue |-> cashBalance + positionsValue,
         cashBalance |-> cashBalance,
         positionsValue |-> positionsValue,
         cache |-> IF tickers = {} THEN cache ELSE r.cache,
         lastKnown |-> IF tickers = {} THEN lk ELSE r.lastKnown]

\* ------------------------------------------------------------- validation
Accepted == [isValid |-> TRUE, reason |-> "", threw |-> FALSE]
Rejected(why) == [isValid |-> FALSE, reason |-> why, threw |-> FALSE]
NoValidation == [isValid |-> FALSE, reason |-> "none", threw |-> FALSE]

\* model, model.config and model.portfolio exist for every seeded model
ConfigComplete(m) == m \in ModelIds

\* positionPct > maxPositionSize, positionPct = totalCost / totalValue in
\* floating point: a zero total gives Infinity, a negative one a negative ratio
ExceedsPositionSize(totalCost, totalValue) ==
    IF totalValue > 0 THEN totalCost * MaxPositionDen > MaxPositionNum * totalValue
    ELSE totalValue = 0

\* a borrowing limit of leverage * initialValue
CashLimitWholeCapital(leverage) == 0 - leverage * InitialCapital

\* a share check that lets one share more than held be sold
InsufficientSharesByTwo(held, wanted) == held + 1 < wanted

\* line 810: position.shares < decision.shares
InsufficientShares(held, wanted) == held < wanted

\* -(leverage - 1) * initialValue
CashLimit(leverage) == 0 - (leverage - 1) * InitialCapital

\* validateDecision with the margin rule after the position-size rule
validateDecisionSizeFirst(m, d, cashBalance, pos, quote, totalValue) ==
    IF ~ConfigComplete(m) THEN Rejected("Model configuration incomplete")
    ELSE IF d.action = "HOLD" THEN Accepted
    ELSE IF d.ticker = "NULL" THEN Rejected("Ticker is required for BUY/SELL")
    ELSE IF d.ticker \notin Watchlist THEN Rejected("not in watchlist")
    ELSE IF d.shares <= 0 THEN Rejected("Shares must be greater than 0")
    ELSE IF d.action = "BUY" THEN
        IF d.leverage \notin allowedLeverages THEN Rejected("Invalid leverage")
        ELSE IF quote = 0 THEN [isValid |-> FALSE, reason |-> "threw", threw |-> TRUE]
        ELSE IF ExceedsPositionSize(quote * d.shares, totalValue)
             THEN Rejected("Position size exceeds limit")
        ELSE IF cashBalance - quote * d.shares < CashLimit(d.leverage)
             THEN Rejected("Insufficient margin")
        ELSE Accepted
    ELSE \* SELL
        IF d.ticker \notin DOMAIN pos THEN Rejected("No position to sell")
        ELSE IF pos[d.ticker].shares < d.shares THEN Rejected("Insufficient shares")
        ELSE Accepted

\* TradingEngine.validateDecision. quote is brokerService.getCurrentPrice
\* (0 = it throws); totalValue is calculateTotalValue(...).totalValue
validateDecision(m, d, cashBalance, pos, quote, totalValue) ==
    IF ~ConfigComplete(m) THEN Rejected("Model configuration incomplete")
    ELSE IF d.action = "HOLD" THEN Accepted
    ELSE IF d.ticker = "NULL" THEN Rejected("Ticker is required for BUY/SELL")
    ELSE IF d.ticker \notin Watchlist THEN Rejected("not in watchlist")
    ELSE IF d.shares <= 0 THEN Rejected("Shares must be greater than 0")
    ELSE IF d.action = "BUY" THEN
        IF d.leverage \notin allowedLeverages THEN Rejected("Invalid leverage")
        ELSE IF quote = 0 THEN [isValid |-> FALSE, reason |-> "threw", threw |-> TRUE]
        ELSE IF cashBalance - quote * d.shares < CashLimit(d.leverage)
             THEN Rejected("Insufficient margin")
        ELSE IF ExceedsPositionSize(quote * d.shares, totalValue)
             THEN Rejected("Position size exceeds limit")
        ELSE Accepted
    ELSE \* SELL
        IF d.ticker \notin DOMAIN pos THEN Rejected("No position to sell")
        ELSE IF InsufficientShares(pos[d.ticker].shares, d.shares)
             THEN Rejected("Insufficient shares")
        ELSE Accepted

\* validateDecision reaches portfolioCalc.calculateTotalValue (line 790)
ReachesValuation(m, d, cashBalance, quote) ==
    /\ ConfigComplete(m)
    /\ d.action = "BUY" /\ d.ticker \in Watchlist /\ d.shares > 0
    /\ d.leverage \in allowedLeverages
    /\ quote # 0
    /\ cashBalance - quote * d.shares >= CashLimit(d.leverage)

\* ------------------------------------------------------------ the ledger
\* a position update that takes the latest fill price as the average cost
positionsAfterLastCost(d, pos, filledPrice) ==
    IF d.action = "BUY"
    THEN [t \in DOMAIN pos \cup {d.ticker} |->
             IF t = d.ticker
             THEN [shares |-> d.shares + (IF t \in DOMAIN pos THEN pos[t].shares ELSE 0),
                   avgCost |-> Frac(filledPrice, 1)]
             ELSE pos[t]]
    ELSE IF d.action = "SELL" /\ d.ticker \in DOMAIN pos
    THEN IF pos[d.ticker].shares = d.shares
         THEN [t \in DOMAIN pos \ {d.ticker} |-> pos[t]]
         ELSE [t \in DOMAIN pos |->
                  IF t = d.ticker
                  THEN [shares |-> pos[t].shares - d.shares, avgCost |-> pos[t].avgCost]
                  ELSE pos[t]]
    ELSE pos

\* updatePortfolio lines 906-928 and 941-962: the Position rows after a fill
positionsAfter(d, pos, filledPrice) ==
    LET held == d.ticker \in DOMAIN pos
    IN  IF d.action = "BUY" THEN
            LET newShares == IF held THEN pos[d.ticker].shares + d.shares ELSE d.shares
                newAvgCost ==
                    IF held
                    THEN Frac(pos[d.ticker].avgCost.n * pos[d.ticker].shares
                                + filledPrice * d.shares * pos[d.ticker].avgCost.d,
                              pos[d.ticker].avgCost.d * newShares)
                    ELSE Frac(filledPrice, 1)
            IN  [t \in DOMAIN pos \cup {d.ticker} |->
                     IF t = d.ticker
                     THEN [shares |-> newShares, avgCost |-> newAvgCost]
                     ELSE pos[t]]
        ELSE IF d.action = "SELL" THEN
            IF ~held THEN pos
            ELSE IF pos[d.ticker].shares = d.shares
            THEN [t \in DOMAIN pos \ {d.ticker} |-> pos[t]]
            ELSE [t \in DOMAIN pos |->
                     IF t = d.ticker
                     THEN [shares |-> pos[t].shares - d.shares, avgCost |-> pos[t].avgCost]
                     ELSE pos[t]]
        ELSE pos

\* an updatePortfolio that credits a sale at the position's average cost
updatePortfolioAtCost(d, cashBalance, pos, filledPrice) ==
    [cash |-> IF d.action = "BUY" THEN cashBalance - filledPrice * d.shares
              ELSE IF d.action = "SELL" /\ d.ticker \in DOMAIN pos
              THEN cashBalance
                   + (pos[d.ticker].avgCost.n * d.shares) \div pos[d.ticker].avgCost.d
              ELSE cashBalance,
     positions |-> positionsAfter(d, pos, filledPrice)]

\* TradingEngine.updatePortfolio: totalValue = filledPrice * decision.shares is
\* taken from the cash on a BUY and added to it on a SELL
updatePortfolio(d, cashBalance, pos, filledPrice) ==
    [cash |-> IF d.action = "BUY" THEN cashBalance - filledPrice * d.shares
              ELSE IF d.action = "SELL" THEN cashBalance + filledPrice * d.shares
              ELSE cashBalance,
     positions |-> positionsAfter(d, pos, filledPrice)]

\* brokerService.submitOrder: it throws, or answers a status with a fill price
\* (BrokerService answers average_price || 0, so a COMPLETE order can carry 0)
SubmitOrderOutcomes ==
    {[kind |-> "throw", status |-> "", filledPrice |-> 0],
     [kind |-> "ok", status |-> "REJECTED", filledPrice |-> 0],
     [kind |-> "ok", status |-> "COMPLETE", filledPrice |-> 0]}
    \cup {[kind |-> "ok", status |-> "COMPLETE", filledPrice |-> p] : p \in Prices}

NoTrade == [modelId |-> "", ticker |-> "NULL", action |-> "NONE", shares |-> 0, price |-> 0,
            totalValue |-> 0, status |-> "NONE", written |-> <<>>]

\* ------------------------------------------------------------ the prompt
\* what the feedback section prints of a decision: action, shares, ticker
Printed(d) == [action |-> d.action, shares |-> d.shares, ticker |-> d.ticker]

NoFeedback == [hasFeedback |-> FALSE, reason |-> "", previous |-> Printed(NoDecision)]

\* buildTradingPrompt: the feedback section is there only when both a
\* validationFeedback and a previousDecision are given
buildTradingPrompt(feedback, prev) ==
    IF feedback # "" /\ prev # NoDecision
    THEN [hasFeedback |-> TRUE, reason |-> feedback, previous |-> Printed(prev)]
    ELSE NoFeedback

\* ------------------------------------------------------------ the services
\* getDataService / getBrokerService / the provider behind ModelManager: the
\* real services answer anything they can answer
FreeStub ==
    [fixed |-> FALSE, feedFixed |-> FALSE, decision |-> [m \in ModelIds |-> NoDecision],
     marketOpen |-> TRUE, fetch |-> [kind |-> "throw", prices |-> NoPrices], quote |-> 0,
     order |-> [kind |-> "throw", status |-> "", filledPrice |-> 0]]

\* fixed stubs: every call of a service gets the same answer; the broker stub
\* quotes (getCurrentPrice) the price the feed stub answers
FixedStubs ==
    {[fixed |-> TRUE, feedFixed |-> TRUE,
      decision |-> [m \in ModelIds |-> IF m = activeModels[1] THEN d ELSE HoldDecision],
      marketOpen |-> b, fetch |-> o,
      quote |-> IF o.kind = "live" THEN o.prices["T1"] ELSE 0,
      order |-> r] :
        d \in BasicDecisions
                \cup {[action |-> "SELL", ticker |-> "T1", shares |-> 2, leverage |-> 1]},
        b \in BOOLEAN, o \in FetchOutcomes, r \in SubmitOrderOutcomes}

\* stubbed providers and broker in front of the real market feed: the first
\* agent holds, the others buy one share, the broker quotes and fills at 1
ProviderStubs ==
    {[fixed |-> TRUE, feedFixed |-> FALSE,
      decision |-> [m \in ModelIds |->
                      IF m = activeModels[1] THEN HoldDecision
                      ELSE [action |-> "BUY", ticker |-> "T1", shares |-> 1, leverage |-> 1]],
      marketOpen |-> TRUE, fetch |-> [kind |-> "throw", prices |-> NoPrices], quote |-> 1,
      order |-> [kind |-> "ok", status |-> "COMPLETE", filledPrice |-> 1]]}

DecisionAnswers(m) == IF stub.fixed THEN {stub.decision[m]} ELSE DecisionsOf(m)
MarketOpenAnswers == IF stub.fixed THEN {stub.marketOpen} ELSE BOOLEAN
FetchAnswers == IF stub.fixed /\ stub.feedFixed THEN {stub.fetch} ELSE FetchOutcomes
QuoteAnswers == IF stub.fixed THEN {stub.quote} ELSE {0} \cup Prices
SubmitOrderAnswers == IF stub.fixed THEN {stub.order} ELSE SubmitOrderOutcomes

\* updatePortfolio of executeTrade either completes or throws before its first
\* write (portfolio.findUnique finds nothing, or the database fails)
UpdatePortfolioAnswers == IF stub.fixed THEN {FALSE} ELSE BOOLEAN

NoCall ==
    [fn |-> "none", modelId |-> "", decision |-> NoDecision, cashBalance |-> 0,
     positions |-> <<>>, quote |-> 0, totalValue |-> 0, result |-> NoValidation]

\* no concurrent requests
NoConc == [started |-> FALSE]

NoFirstRun ==
    [finished |-> FALSE, status |-> "NONE", trades |-> <<>>,
     ranks |-> [m \in ModelIds |-> 0]]

\* ------------------------------------------------------------------- Init
\* first day of the range (a Sunday)
StartDay == 1
\* intervalMinutes the start route is given: 2 cycles, 0 cycles, 1 cycle a day
Intervals == {150, 400, 1440}

NoPositions == [t \in {} |-> 0]
NoSnapshot == [modelId |-> "", totalValue |-> 0, cashBalance |-> 0, positionsValue |-> 0]
NoLedger == [cash |-> 0, positions |-> NoPositions]

\* runner.ts countTradingDays
RECURSIVE countTradingDays(_, _)
countTradingDays(d, end) ==
    IF d > end THEN 0
    ELSE (IF isWeekend(d) THEN 0 ELSE 1) + countTradingDays(d + 1, end)

\* the ledger of the first model when a run starts: the seeded one, or the one
\* an earlier run left behind (it bought 2 shares at 1; the quote was stored as
\* a MarketData row)
SeededLedger == [cash |-> InitialCapital, positions |-> NoPositions,
                 lastKnown |-> NoPrices]
CarriedLedger ==
    [cash |-> InitialCapital - 2,
     positions |-> [t \in Watchlist |-> [shares |-> 2, avgCost |-> Frac(1, 1)]],
     lastKnown |-> [t \in Watchlist |-> 1]]
\* the one left behind by an earlier run that bought 3 shares filled at 2
SpentLedger ==
    [cash |-> InitialCapital - 6,
     positions |-> [t \in Watchlist |-> [shares |-> 3, avgCost |-> Frac(2, 1)]],
     lastKnown |-> [t \in Watchlist |-> 1]]

\* the state after the start route has built its publisher and the engine,
\* for a run over StartDay..lastDay with the first model's ledger l
InitOf(lastDays, intervals, ledgers, stubs) ==
    /\ pc = "start"
    /\ startDay = StartDay
    /\ endDay \in lastDays
    /\ intervalMinutes \in intervals
    /\ status = "NONE"
    /\ statusLog = <<>>
    /\ runTradingDays = -1
    /\ current = StartDay
    /\ cycle = 0
    /\ tradingDaysProcessed = 0
    /\ committedDays = 0
    /\ lastPortfolios = <<>>
    /\ runModels = [m \in ModelIds |-> [exists |-> FALSE, totalValue |-> 0, rank |-> 0]]
    /\ runSnapshots = {}
    /\ signalAborted = FALSE
    /\ listenerOn = FALSE
    /\ aborted = FALSE
    /\ abortedInLoop = FALSE
    /\ sinkClosed = FALSE
    /\ agentIdx = 0
    /\ processed = 0
    /\ errors = 0
    /\ visited = {}
    /\ dataFetchFailed = FALSE
    /\ marketData = NoPrices
    /\ attempt = 0
    /\ decision = NoDecision
    /\ previousDecision = NoDecision
    /\ validationFeedback = ""
    /\ validation = NoValidation
    /\ requestCount = 0
    /\ lastRequest = NoFeedback
    /\ \E l \in ledgers :
         /\ cash = [m \in ModelIds |->
                      IF m = activeModels[1] THEN l.cash ELSE InitialCapital]
         /\ positions = [m \in ModelIds |->
                           IF m = activeModels[1] THEN l.positions ELSE NoPositions]
         /\ lastKnown = l.lastKnown
    /\ trade = NoTrade
    /\ tradePre = NoLedger
    /\ tradesThisCycle = [m \in ModelIds |-> 0]
    /\ snapsThisCycle = [m \in ModelIds |-> 0]
    /\ snapshot = NoSnapshot
    /\ minCashLimit = [m \in ModelIds |-> 0]
    /\ enginePriceCache = NoPrices
    /\ runnerPriceCache = NoPrices
    /\ freshInCache = {}
    /\ stub \in stubs
    /\ runTrades = <<>>
    /\ firstRun = NoFirstRun
    /\ checked = NoCall
    /\ conc = NoConc

\* the same, for the runs of at most MaxCycles cycles
InitWith(lastDays, intervals, ledgers, stubs) ==
    /\ InitOf(lastDays, intervals, ledgers, stubs)
    /\ countTradingDays(startDay, endDay) * cyclesPerDayOf(intervalMinutes) <= MaxCycles

\* a run over any range up to MaxDay, on freshly seeded ledgers
Init == InitWith(StartDay..MaxDay, Intervals, {SeededLedger}, {FreeStub})

\* a run over Sunday and Monday with one cycle a day: one cycle in all, on a
\* seeded ledger or one an earlier run left behind
CycleInit ==
    InitWith({StartDay + 1}, {DayMinutes}, {SeededLedger, CarriedLedger, SpentLedger},
             {FreeStub})

\* runs of at most one cycle over any range up to MaxDay: one cycle a day over
\* Sunday and Monday, or no cycle a day (375 < intervalMinutes < 1440) over
\* several days, each with its end-of-day transaction
RunInit ==
    /\ InitWith(StartDay..MaxDay, {400, DayMinutes}, {SeededLedger, CarriedLedger},
                {FreeStub})
    /\ countTradingDays(startDay, endDay) * cyclesPerDayOf(intervalMinutes) <= 1

\* a run of one cycle behind fixed stubs, on a seeded or a carried ledger
ReplayInit ==
    InitWith({StartDay + 1}, {DayMinutes}, {SeededLedger, CarriedLedger}, FixedStubs)

\* a run of one day with two cycles on a carried ledger, the market feed
\* behind it answering anything it can answer
PriceInit == InitWith({StartDay + 1}, {150}, {CarriedLedger}, ProviderStubs)

\* a run over Sunday and Monday with an interval the route can pass on: a
\* negative one, 0, or a full day
LiveIntervals == {0 - 150, 0, DayMinutes}
LiveInit == InitOf({StartDay + 1}, LiveIntervals, {SeededLedger}, ProviderStubs)

\* before any run: validateDecision or getModelDecision is called on its own
ValidateInit == InitWith({StartDay}, {DayMinutes}, {SeededLedger}, {FreeStub})

\* pcs at which runBacktestLive is suspended in an await (the step named by the
\* pc runs when the awaited promise settles): only there can an event be
\* dispatched. The first set is inside the while loop of lines 80-202.
LoopPcs == {"cycleStart", "pmAwait", "pmAfter", "pmSubmit", "pmPublishTrade",
            "pmDone", "pmFailed", "cycleEnd", "cycleReturn", "eod", "eodPublish"}
AwaitPcs == LoopPcs \cup {"created", "afterLoop", "finalPublish", "catch"}
FinalPcs == {"done", "threw"}

\* ------------------------------------------------ route.ts: client disconnect
\* req.signal fires 'abort': the route's listener publishes 'error' and closes
\* the stream controller; the runner's abortHandler, if registered, sets aborted
Abort ==
    /\ ~signalAborted
    /\ pc \in AwaitPcs
    /\ signalAborted' = TRUE
    /\ sinkClosed' = TRUE
    /\ aborted' = listenerOn
    /\ abortedInLoop' = (listenerOn /\ pc \in LoopPcs)
    /\ UNCHANGED <<pc, runVars, listenerOn, cycleVars, pmVars, ledgerVars, tradeVars,
                   snapVars, minCashLimit, priceVars>>

\* ------------------------------------------------------- runBacktestLive
\* lines 51-64: prisma.backtestRun.create({ status: 'RUNNING' })
CreateRun ==
    /\ pc = "start"
    /\ status' = "RUNNING"
    /\ statusLog' = Append(statusLog, "RUNNING")
    /\ pc' = "created"
    /\ UNCHANGED <<replayVars, startDay, endDay, intervalMinutes, runTradingDays, current, cycle,
                   tradingDaysProcessed, committedDays, lastPortfolios, runModels,
                   runSnapshots, sinkVars, cycleVars, pmVars, ledgerVars, tradeVars,
                   snapVars, minCashLimit, priceVars>>

\* lines 66-77: publish('run_started') outside the try block, then
\* signal.addEventListener('abort', abortHandler)
RunStarted ==
    /\ pc = "created"
    /\ IF PublishThrows(sinkClosed)
       THEN pc' = "threw" /\ UNCHANGED listenerOn
       ELSE pc' = "dayLoop" /\ listenerOn' = TRUE
    /\ UNCHANGED <<runVars, signalAborted, aborted, abortedInLoop, sinkClosed, cycleVars,
                   pmVars, ledgerVars, tradeVars, snapVars, minCashLimit, priceVars>>

\* lines 80-89: while (current <= end) { if (aborted) break; weekend skip;
\* tradingDaysProcessed++ ...
DayLoopHead ==
    /\ pc = "dayLoop"
    /\ IF current > endDay \/ aborted
       THEN pc' = "afterLoop" /\ UNCHANGED <<current, tradingDaysProcessed, cycle>>
       ELSE IF isWeekend(current)
       THEN pc' = "dayLoop" /\ current' = current + 1
            /\ UNCHANGED <<tradingDaysProcessed, cycle>>
       ELSE pc' = "cycleHead" /\ tradingDaysProcessed' = tradingDaysProcessed + 1
            /\ cycle' = 1 /\ UNCHANGED current
    /\ UNCHANGED <<replayVars, startDay, endDay, intervalMinutes, status, statusLog, runTradingDays,
                   committedDays, lastPortfolios, runModels, runSnapshots, sinkVars,
                   cycleVars, pmVars, ledgerVars, tradeVars, snapVars, minCashLimit,
                   priceVars>>

\* lines 91-110: the cycle loop head, its abort checks and publish('cycle_started')
CycleHead ==
    /\ pc = "cycleHead"
    /\ IF aborted THEN pc' = "afterLoop"
       ELSE IF cycle > cyclesPerDayOf(intervalMinutes) THEN pc' = "eod"
       ELSE IF PublishThrows(sinkClosed) THEN pc' = "catch"
       ELSE pc' = "cycleStart"
    /\ UNCHANGED <<runVars, sinkVars, cycleVars, pmVars, ledgerVars, tradeVars,
                   snapVars, minCashLimit, priceVars>>

\* -------------------------------------------------- executeTradingCycle
\* the model the for loop over activeModels is at
Model == activeModels[agentIdx]

\* lines 511-539: market-open check, prisma.model.findMany, getMarketData;
\* lines 571-584: the catch of the whole cycle swallows a getMarketData failure
CycleStart ==
    /\ pc = "cycleStart"
    /\ processed' = 0
    /\ errors' = 0
    /\ visited' = {}
    /\ tradesThisCycle' = [m \in ModelIds |-> 0]
    /\ snapsThisCycle' = [m \in ModelIds |-> 0]
    /\ freshInCache' = {}
    /\ \E marketOpen \in MarketOpenAnswers, o \in FetchAnswers :
         LET md == getMarketData(Watchlist \cup OtherWatched, lastKnown, o) IN
         IF ~marketOpen
         THEN pc' = "cycleReturn" /\ marketData' = NoPrices
              /\ UNCHANGED <<agentIdx, dataFetchFailed, lastKnown>>
         ELSE IF md.threw
         THEN pc' = "cycleReturn" /\ dataFetchFailed' = TRUE /\ marketData' = NoPrices
              /\ UNCHANGED <<agentIdx, lastKnown>>
         ELSE pc' = "pmBegin" /\ agentIdx' = 1 /\ lastKnown' = md.lastKnown
              /\ marketData' = md.prices
              /\ UNCHANGED dataFetchFailed
    /\ UNCHANGED <<runVars, sinkVars, pmVars, ledgerVars, trade, tradePre, runTrades,
                   snapshot, minCashLimit, enginePriceCache, runnerPriceCache>>

\* lines 542-555: the next iteration of for (const model of activeModels)
NextModel ==
    IF agentIdx < Len(activeModels)
    THEN pc' = "pmBegin" /\ agentIdx' = agentIdx + 1
    ELSE pc' = "cycleEnd" /\ UNCHANGED agentIdx

\* a catch block that leaves the for loop
AfterCatchLeavesLoop == pc' = "cycleEnd" /\ UNCHANGED agentIdx

\* lines 546-554: the catch block neither rethrows nor breaks: the for loop
\* goes on with the next model
AfterCatch == NextModel

\* the locals of a processModel call are gone once it has returned or thrown
LocalsDropped ==
    /\ attempt' = 0
    /\ decision' = NoDecision
    /\ previousDecision' = NoDecision
    /\ validationFeedback' = ""
    /\ validation' = NoValidation
    /\ requestCount' = 0
    /\ lastRequest' = NoFeedback

\* an exception leaves processModel: line 546 catches it
Thrown == pc' = "pmFailed" /\ LocalsDropped

\* lines 546-554: catch (error) { errors++; logSystemEvent(...) }, then the
\* next model
ModelFailed ==
    /\ pc = "pmFailed"
    /\ errors' = errors + 1
    /\ AfterCatch
    /\ trade' = NoTrade
    /\ tradePre' = NoLedger
    /\ UNCHANGED <<runVars, sinkVars, processed, visited, dataFetchFailed, marketData, pmVars,
                   ledgerVars, tradesThisCycle, runTrades, snapVars, minCashLimit,
                   priceVars>>

\* line 545: processed++, then the next model
ModelProcessed ==
    /\ pc = "pmDone"
    /\ processed' = processed + 1
    /\ NextModel
    /\ trade' = NoTrade
    /\ tradePre' = NoLedger
    /\ snapshot' = NoSnapshot
    /\ UNCHANGED <<runVars, sinkVars, errors, visited, dataFetchFailed, marketData, pmVars,
                   ledgerVars, tradesThisCycle, runTrades, snapsThisCycle, minCashLimit,
                   priceVars>>

\* lines 557-570: 'Trading cycle completed' is logged and the result returned;
\* the cycle's marketData goes with it
CycleEnd ==
    /\ pc = "cycleEnd"
    /\ pc' = "cycleReturn"
    /\ marketData' = NoPrices
    /\ freshInCache' = {}
    /\ UNCHANGED <<runVars, sinkVars, agentIdx, processed, errors, visited, dataFetchFailed,
                   pmVars, ledgerVars, tradeVars, snapVars, minCashLimit, lastKnown,
                   enginePriceCache, runnerPriceCache>>

\* runner.ts lines 91, 107: the awaited cycle returned (its result is not
\* looked at), cycle++ (the counter of the model stops below Infinity)
CycleReturn ==
    /\ pc = "cycleReturn"
    /\ cycle' = IF cycle < Infinity - 1 THEN cycle + 1 ELSE cycle
    /\ pc' = "cycleHead"
    /\ agentIdx' = 0
    /\ processed' = 0
    /\ errors' = 0
    /\ visited' = {}
    /\ tradesThisCycle' = [m \in ModelIds |-> 0]
    /\ snapsThisCycle' = [m \in ModelIds |-> 0]
    /\ UNCHANGED <<replayVars, startDay, endDay, intervalMinutes, status, statusLog, runTradingDays,
                   current, tradingDaysProcessed, committedDays, lastPortfolios,
                   runModels, runSnapshots, sinkVars, dataFetchFailed, marketData, pmVars,
                   ledgerVars, trade, tradePre, runTrades, snapshot, minCashLimit,
                   priceVars>>

\* ------------------------------------------------------------ processModel
\* lines 590-610: the locals of processModel
ProcessModelBegin ==
    /\ pc = "pmBegin"
    /\ visited' = visited \cup {Model}
    /\ attempt' = 1
    /\ decision' = NoDecision
    /\ previousDecision' = NoDecision
    /\ validationFeedback' = ""
    /\ validation' = NoValidation
    /\ requestCount' = 0
    /\ lastRequest' = NoFeedback
    /\ pc' = "pmDecide"
    /\ UNCHANGED <<runVars, sinkVars, agentIdx, processed, errors, dataFetchFailed, marketData,
                   ledgerVars, tradeVars, snapVars, minCashLimit, priceVars>>

\* a loop that allows one attempt more than maxAttempts
LoopAgainOnceMore(att) == att <= maxAttempts + 1

\* line 613: while (attempt <= maxAttempts)
LoopAgain(att) == att <= maxAttempts

\* lines 613-620 and model-manager.ts 234-245: getModelDecision is called with
\* validationFeedback and previousDecision, which go into the prompt
RequestDecision ==
    /\ pc = "pmDecide"
    /\ LoopAgain(attempt)
    /\ requestCount' = requestCount + 1
    /\ lastRequest' = buildTradingPrompt(validationFeedback, previousDecision)
    /\ pc' = "pmAwait"
    /\ UNCHANGED <<runVars, sinkVars, cycleVars, attempt, decision, previousDecision,
                   validationFeedback, validation, ledgerVars, tradeVars, snapVars,
                   minCashLimit, priceVars>>

\* lines 622-634: the decision comes back (the prompt is gone with the
\* getModelDecision call) and is validated; on leaving the loop the feedback
\* locals are not read again
ReceiveAndValidate ==
    /\ pc = "pmAwait"
    /\ \E d \in DecisionAnswers(Model), quote \in QuoteAnswers, o \in FetchAnswers :
         LET m == Model
             tv == calculateTotalValue(cash[m], positions[m], enginePriceCache, o,
                                       lastKnown)
             v == validateDecision(m, d, cash[m], positions[m], quote, tv.totalValue)
             reaches == ReachesValuation(m, d, cash[m], quote)
         IN  /\ enginePriceCache' = IF reaches THEN tv.cache ELSE enginePriceCache
             /\ freshInCache' = IF reaches
                                THEN freshInCache \cup Cached(enginePriceCache, tv.cache)
                                ELSE freshInCache
             /\ lastKnown' = IF reaches THEN tv.lastKnown ELSE lastKnown
             /\ IF v.threw
                THEN Thrown
                ELSE /\ decision' = d
                     /\ validation' = v
                     /\ lastRequest' = NoFeedback
                     /\ UNCHANGED requestCount
                     /\ IF v.isValid
                        THEN /\ pc' = "pmAfter"
                             /\ previousDecision' = NoDecision
                             /\ validationFeedback' = ""
                             /\ UNCHANGED attempt
                        ELSE /\ attempt' = attempt + 1
                             /\ IF LoopAgain(attempt + 1)
                                THEN /\ pc' = "pmDecide"
                                     /\ previousDecision' = d
                                     /\ validationFeedback' = v.reason
                                ELSE /\ pc' = "pmAfter"
                                     /\ previousDecision' = NoDecision
                                     /\ validationFeedback' = ""
    /\ UNCHANGED <<runVars, sinkVars, cycleVars, ledgerVars, tradeVars, snapVars,
                   minCashLimit, runnerPriceCache>>

\* lines 637-656 and 829-841, or 700-720: a rejected decision becomes HOLD; a
\* HOLD is published as 'portfolio'; otherwise executeTrade creates the PENDING
\* Trade row. The attempt counter is not read again.
AfterLoop ==
    /\ pc = "pmAfter"
    /\ LET m == Model
           d == IF ~validation.isValid THEN HoldDecision ELSE decision
       IN  IF d.action = "HOLD"
           THEN /\ IF PublishThrows(sinkClosed)
                   THEN Thrown
                   ELSE /\ pc' = "pmSnapshot"
                        /\ decision' = d
                        /\ attempt' = 0
                        /\ requestCount' = 0
                        /\ UNCHANGED <<previousDecision, validationFeedback, validation,
                                       lastRequest>>
                /\ UNCHANGED tradeVars
           ELSE /\ trade' = [modelId |-> m, ticker |-> d.ticker, action |-> d.action,
                             shares |-> d.shares,
                             price |-> 0, totalValue |-> 0, status |-> "PENDING",
                             written |-> <<"PENDING">>]
                /\ tradePre' = [cash |-> cash[m], positions |-> positions[m]]
                /\ tradesThisCycle' = [tradesThisCycle EXCEPT ![m] = @ + 1]
                /\ runTrades' = IF stub.fixed
                                THEN Append(runTrades, [modelId |-> m, order |-> Printed(d)])
                                ELSE runTrades
                /\ pc' = "pmSubmit"
                /\ decision' = d
                /\ attempt' = 0
                /\ requestCount' = 0
                /\ UNCHANGED <<previousDecision, validationFeedback, validation,
                               lastRequest>>
    /\ UNCHANGED <<runVars, sinkVars, cycleVars, ledgerVars, snapVars, minCashLimit,
                   priceVars>>

Min(a, b) == IF a < b THEN a ELSE b

\* executeTrade lines 843-879 with updatePortfolio: the broker is asked, the
\* Trade row gets its status, and the ledger is updated when the order is
\* COMPLETE and has a fill price. 'written' lists the statuses the Trade row
\* was given, in order. When updatePortfolio throws (line 886, or a failed
\* write) the row already reads FILLED and the catch of lines 869-878 sets it
\* to REJECTED and rethrows
SubmitOrder ==
    /\ pc = "pmSubmit"
    /\ \E r \in SubmitOrderAnswers, ledgerThrows \in UpdatePortfolioAnswers :
         LET m == Model
             up == updatePortfolio(decision, cash[m], positions[m], r.filledPrice)
             applies == r.kind = "ok" /\ r.status = "COMPLETE" /\ r.filledPrice # 0
             ended == IF r.status = "COMPLETE" THEN "FILLED" ELSE "REJECTED"
         IN  IF r.kind = "throw"
             THEN /\ ~ledgerThrows
                  /\ trade' = [trade EXCEPT !.status = "REJECTED",
                                            !.written = Append(@, "REJECTED")]
                  /\ Thrown
                  /\ UNCHANGED <<ledgerVars, minCashLimit>>
             ELSE IF ledgerThrows
             THEN /\ applies
                  /\ trade' = [trade EXCEPT
                                 !.price = r.filledPrice,
                                 !.totalValue = r.filledPrice * decision.shares,
                                 !.status = "REJECTED",
                                 !.written = @ \o <<"FILLED", "REJECTED">>]
                  /\ Thrown
                  /\ UNCHANGED <<ledgerVars, minCashLimit>>
             ELSE /\ trade' = [trade EXCEPT
                                 !.price = r.filledPrice,
                                 !.totalValue = r.filledPrice * decision.shares,
                                 !.status = ended,
                                 !.written = Append(@, ended)]
                  /\ cash' = IF applies THEN [cash EXCEPT ![m] = up.cash] ELSE cash
                  /\ positions' = IF applies THEN [positions EXCEPT ![m] = up.positions]
                                  ELSE positions
                  /\ minCashLimit' =
                        IF applies /\ decision.action = "BUY"
                        THEN [minCashLimit EXCEPT
                                ![m] = Min(@, CashLimit(decision.leverage))]
                        ELSE minCashLimit
                  /\ pc' = "pmPublishTrade"
                  /\ UNCHANGED pmVars
    /\ UNCHANGED <<runVars, sinkVars, cycleVars, tradePre, tradesThisCycle, runTrades,
                   snapVars, priceVars>>

\* lines 658-699: the updated portfolio is read and 'trade' is published
PublishTrade ==
    /\ pc = "pmPublishTrade"
    /\ IF PublishThrows(sinkClosed)
       THEN Thrown
       ELSE pc' = "pmSnapshot" /\ UNCHANGED pmVars
    /\ UNCHANGED <<runVars, sinkVars, cycleVars, ledgerVars, tradeVars, snapVars,
                   minCashLimit, priceVars>>

\* lines 722-729 and PortfolioCalculator.createSnapshot: the last step of
\* processModel
CreateSnapshot ==
    /\ pc = "pmSnapshot"
    /\ \E o \in FetchAnswers :
         LET m == Model
             v == calculateTotalValue(cash[m], positions[m], enginePriceCache, o,
                                      lastKnown)
         IN  /\ snapshot' = [modelId |-> m, totalValue |-> v.totalValue,
                              cashBalance |-> v.cashBalance,
                              positionsValue |-> v.positionsValue]
             /\ snapsThisCycle' = [snapsThisCycle EXCEPT ![m] = @ + 1]
             /\ enginePriceCache' = v.cache
             /\ freshInCache' = freshInCache \cup Cached(enginePriceCache, v.cache)
             /\ lastKnown' = v.lastKnown
    /\ pc' = "pmDone"
    /\ LocalsDropped
    /\ UNCHANGED <<runVars, sinkVars, cycleVars, ledgerVars, tradeVars, minCashLimit,
                   runnerPriceCache>>

\* ---------------------------------------------------- runner: end of day
\* lines 112-134: one PortfolioSummary per active model, valued by the runner's
\* own PortfolioCalculator
RECURSIVE summaries(_, _, _, _)
summaries(i, cache, lk, os) ==
    IF i > Len(activeModels)
    THEN [portfolios |-> <<>>, cache |-> cache, lastKnown |-> lk]
    ELSE LET m == activeModels[i]
             v == calculateTotalValue(cash[m], positions[m], cache, os[m], lk)
             rest == summaries(i + 1, v.cache, v.lastKnown, os)
         IN  [portfolios |-> <<[modelId |-> m, totalValue |-> v.totalValue]>>
                               \o rest.portfolios,
              cache |-> rest.cache,
              lastKnown |-> rest.lastKnown]

\* a transaction that creates the snapshot row of the first summary only
createdSnapshotsFirstOnly(day) == {<<activeModels[1], day>>}

\* lines 171-180: tx.backtestRunSnapshot.create for every summary of the day
createdSnapshots(day) == {<<m, day>> : m \in ModelIds}

\* lines 112-181: the summaries, then one transaction that upserts a
\* BacktestRunModel row and creates a BacktestRunSnapshot row per model
EndOfDay ==
    /\ pc = "eod"
    /\ \E os \in [ModelIds -> FetchAnswers], committed \in BOOLEAN :
         LET sm == summaries(1, runnerPriceCache, lastKnown, os)
             total == [i \in 1..Len(sm.portfolios) |-> sm.portfolios[i].totalValue]
             idx(m) == CHOOSE i \in 1..Len(sm.portfolios) : sm.portfolios[i].modelId = m
         IN  /\ lastPortfolios' = sm.portfolios
             /\ runnerPriceCache' = sm.cache
             /\ lastKnown' = sm.lastKnown
             /\ IF committed
                THEN /\ runModels' = [m \in ModelIds |->
                           [exists |-> TRUE, totalValue |-> total[idx(m)],
                            rank |-> runModels[m].rank]]
                     /\ runSnapshots' = runSnapshots \cup createdSnapshots(current)
                     /\ committedDays' = committedDays + 1
                     /\ pc' = "eodPublish"
                ELSE /\ pc' = "catch"
                     /\ UNCHANGED <<runModels, runSnapshots, committedDays>>
    /\ UNCHANGED <<replayVars, startDay, endDay, intervalMinutes, status, statusLog, runTradingDays,
                   current, cycle, tradingDaysProcessed, sinkVars, cycleVars, pmVars,
                   ledgerVars, tradeVars, snapVars, minCashLimit, enginePriceCache,
                   freshInCache>>

\* lines 183-201: publish('eod_summary'), current = addDays(current, 1)
EodPublish ==
    /\ pc = "eodPublish"
    /\ IF PublishThrows(sinkClosed)
       THEN pc' = "catch" /\ UNCHANGED current
       ELSE pc' = "dayLoop" /\ current' = current + 1
    /\ UNCHANGED <<replayVars, startDay, endDay, intervalMinutes, status, statusLog, runTradingDays,
                   cycle, tradingDaysProcessed, committedDays, lastPortfolios, runModels,
                   runSnapshots, sinkVars, cycleVars, pmVars, ledgerVars, tradeVars,
                   snapVars, minCashLimit, priceVars>>

\* --------------------------------------------------- runner: after the loop
\* position of entry i when the entries are sorted by total value ascending
rankOfAscending(ps, i) ==
    1 + Cardinality({j \in 1..Len(ps) :
            \/ ps[j].totalValue < ps[i].totalValue
            \/ (ps[j].totalValue = ps[i].totalValue /\ j < i)})

\* position (1-based) of entry i of ps in [...ps].sort((a, b) => b.totalValue -
\* a.totalValue), a stable sort
rankOf(ps, i) ==
    1 + Cardinality({j \in 1..Len(ps) :
            \/ ps[j].totalValue > ps[i].totalValue
            \/ (ps[j].totalValue = ps[i].totalValue /\ j < i)})

\* lines 236-250: rank written to the BacktestRunModel row of every entry
rankedModels(rm, ps) ==
    [m \in ModelIds |->
        IF \E i \in 1..Len(ps) : ps[i].modelId = m
        THEN [rm[m] EXCEPT !.rank =
                 rankOf(ps, CHOOSE i \in 1..Len(ps) : ps[i].modelId = m)]
        ELSE rm[m]]

\* lines 204-261: after the loop the run is written CANCELLED when aborted is
\* set, else the ranks are written and the run is written COMPLETED
AfterDayLoop ==
    /\ pc = "afterLoop"
    /\ runTradingDays' = tradingDaysProcessed
    /\ IF aborted
       THEN /\ status' = "CANCELLED"
            /\ statusLog' = Append(statusLog, "CANCELLED")
            /\ UNCHANGED runModels
       ELSE /\ runModels' = rankedModels(runModels, lastPortfolios)
            /\ status' = "COMPLETED"
            /\ statusLog' = Append(statusLog, "COMPLETED")
    /\ pc' = "finalPublish"
    /\ UNCHANGED <<replayVars, startDay, endDay, intervalMinutes, current, cycle,
                   tradingDaysProcessed, committedDays, lastPortfolios, runSnapshots,
                   sinkVars, cycleVars, pmVars, ledgerVars, tradeVars, snapVars,
                   minCashLimit, priceVars>>

\* lines 222-233 and 263-274: publish('run_complete') inside the try block,
\* then return
PublishRunComplete ==
    /\ pc = "finalPublish"
    /\ pc' = IF PublishThrows(sinkClosed) THEN "catch" ELSE "done"
    /\ UNCHANGED <<runVars, sinkVars, cycleVars, pmVars, ledgerVars, tradeVars, snapVars,
                   minCashLimit, priceVars>>

\* a catch block that removes the rows of the failed run
CatchDropsRows ==
    /\ runModels' = [m \in ModelIds |-> [exists |-> FALSE, totalValue |-> 0, rank |-> 0]]
    /\ runSnapshots' = {}

\* lines 275-301: the catch block writes to the BacktestRun row only
CatchKeepsRows == UNCHANGED <<runModels, runSnapshots>>

\* lines 275-301: catch (error): the run is written FAILED and the error is
\* thrown on
Catch ==
    /\ pc = "catch"
    /\ status' = "FAILED"
    /\ statusLog' = Append(statusLog, "FAILED")
    /\ runTradingDays' = tradingDaysProcessed
    /\ pc' = "threw"
    /\ CatchKeepsRows
    /\ UNCHANGED <<replayVars, startDay, endDay, intervalMinutes, current, cycle,
                   tradingDaysProcessed, committedDays, lastPortfolios,
                   sinkVars, cycleVars, pmVars, ledgerVars, tradeVars,
                   snapVars, minCashLimit, priceVars>>

\* ------------------------------------------------------- specification
\* a second call of runBacktestLive with the same params, after the first has
\* returned: a new request, publisher, engine and calculator (route.ts 19-44,
\* runner.ts 41-44), the Portfolio, Position and MarketData rows as the first
\* call left them
SecondRun ==
    /\ pc = "done"
    /\ stub.fixed
    /\ ~firstRun.finished
    /\ firstRun' = [finished |-> TRUE, status |-> status, trades |-> runTrades,
                    ranks |-> [m \in ModelIds |-> runModels[m].rank]]
    /\ pc' = "start"
    /\ status' = "NONE"
    /\ statusLog' = <<>>
    /\ runTradingDays' = -1
    /\ current' = StartDay
    /\ cycle' = 0
    /\ tradingDaysProcessed' = 0
    /\ committedDays' = 0
    /\ lastPortfolios' = <<>>
    /\ runModels' = [m \in ModelIds |-> [exists |-> FALSE, totalValue |-> 0, rank |-> 0]]
    /\ runSnapshots' = {}
    /\ signalAborted' = FALSE
    /\ listenerOn' = FALSE
    /\ aborted' = FALSE
    /\ abortedInLoop' = FALSE
    /\ sinkClosed' = FALSE
    /\ dataFetchFailed' = FALSE
    /\ marketData' = NoPrices
    /\ runTrades' = <<>>
    /\ enginePriceCache' = NoPrices
    /\ runnerPriceCache' = NoPrices
    /\ freshInCache' = {}
    /\ UNCHANGED <<startDay, endDay, intervalMinutes, stub, checked, conc, agentIdx, processed,
                   errors, visited, pmVars, ledgerVars, trade, tradePre, tradesThisCycle,
                   snapVars, minCashLimit, lastKnown>>

\* ------------------------------------------- validateDecision on its own
\* the decisions a parsed answer can carry, the cash balances, the positions and
\* the prices validateDecision is called with
CheckedDecisions ==
    {[action |-> a, ticker |-> t, shares |-> s, leverage |-> l] :
        a \in {"HOLD", "BUY", "SELL"}, t \in {"T1", "X", "NULL"}, s \in 0..MaxShares,
        l \in {1, 3, 5}}
CheckedCash == {CashLimit(5) - 1, CashLimit(5) + 1} \cup (0 - 1)..(InitialCapital)
CheckedPositions ==
    {NoPositions}
    \cup {[t \in Watchlist |-> [shares |-> s, avgCost |-> Frac(1, 1)]] : s \in 1..MaxShares}

\* one call validateDecision(modelId, decision): the Portfolio row and its
\* positions as read at 739-745, the quote of getCurrentPrice (0 = it throws),
\* the total of calculateTotalValue with the prices the calculator has cached
ValidateCall ==
    /\ pc = "start"
    /\ checked = NoCall
    /\ \E m \in ModelIds, d \in CheckedDecisions, cashBalance \in CheckedCash,
          pos \in CheckedPositions, quote \in {0} \cup Prices,
          cache \in [Watchlist -> {0} \cup Prices] :
         LET tv == calculateTotalValue(cashBalance, pos, cache,
                                       [kind |-> "throw", prices |-> NoPrices], NoPrices)
         IN  checked' = [fn |-> "validateDecision", modelId |-> m, decision |-> d,
                         cashBalance |-> cashBalance, positions |-> pos, quote |-> quote,
                         totalValue |-> tv.totalValue,
                         result |-> validateDecision(m, d, cashBalance, pos, quote,
                                                     tv.totalValue)]
    /\ UNCHANGED <<pc, stub, firstRun, conc, startDay, endDay, intervalMinutes, status, statusLog,
                   runTradingDays, current, cycle, tradingDaysProcessed, committedDays,
                   lastPortfolios, runModels, runSnapshots, sinkVars, cycleVars, pmVars,
                   ledgerVars, tradeVars, snapVars, minCashLimit, priceVars>>

\* --------------------------------------------- getModelDecision on its own
\* const maxRetries = 3
maxRetries == 3

\* what one pass through the try block of the while loop does. Without an
\* analysis request: the provider call throws, parseTradeDecision throws,
\* decisionLog.create throws, or the parsed decision is logged and returned.
\* With a first response that requests analysis (lines 306-385): the second
\* provider call throws, the second response is parsed by neither parser, or
\* it gives the decision that is logged and returned
AttemptOutcomes ==
    {[kind |-> k, decision |-> NoDecision] :
        k \in {"callFails", "parseFails", "logFails", "toolCallFails", "toolParseFails"}}
    \cup {[kind |-> k, decision |-> d] : k \in {"ok", "toolOk"}, d \in BasicDecisions}

\* the passes that make the second provider call of lines 328-373
ToolKinds == {"toolOk", "toolCallFails", "toolParseFails"}

\* nothing called or written yet: provider calls made, analysis round trips
\* made, DecisionLog rows created
NoEffects == [calls |-> 0, rounds |-> 0, logged |-> 0]

\* a catch block that gives up only after more than maxRetries failures
RetriesExhaustedLate(retryCount) == retryCount > maxRetries

\* line 410: if (retryCount >= maxRetries)
RetriesExhausted(retryCount) == retryCount >= maxRetries

\* lines 420-429: the fallback the catch block returns
FallbackHold ==
    [threw |-> FALSE, error |-> "", decision |-> HoldDecision,
     reasoning |-> "Failed to get valid decision after maxRetries attempts"]

\* lines 247-438: the while loop from retryCount, the next pass being pass
\* number attempts + 1; outs[i] is what pass i does, fallbackLogged whether the
\* decisionLog.create of the catch block (412-418) succeeds, eff what the
\* earlier passes called and wrote
RECURSIVE retryLoop(_, _, _, _, _)
retryLoop(retryCount, attempts, outs, fallbackLogged, eff) ==
    IF ~(retryCount < maxRetries)
    THEN [threw |-> TRUE, error |-> "Unexpected error in getModelDecision",
          decision |-> NoDecision, reasoning |-> "", attempts |-> attempts] @@ eff
    ELSE LET o == outs[attempts + 1]
             tool == o.kind \in ToolKinds
             called == [eff EXCEPT !.calls = @ + (IF tool THEN 2 ELSE 1),
                                   !.rounds = @ + (IF tool THEN 1 ELSE 0)]
         IN
         IF o.kind \in {"ok", "toolOk"}
         THEN [threw |-> FALSE, error |-> "", decision |-> o.decision,
               reasoning |-> "answered", attempts |-> attempts + 1]
              @@ [called EXCEPT !.logged = @ + 1]
         ELSE IF RetriesExhausted(retryCount + 1)
         THEN IF fallbackLogged
              THEN FallbackHold @@ [attempts |-> attempts + 1]
                   @@ [called EXCEPT !.logged = @ + 1]
              ELSE [threw |-> TRUE, error |-> "decisionLog.create", decision |-> NoDecision,
                    reasoning |-> "", attempts |-> attempts + 1] @@ called
         ELSE retryLoop(retryCount + 1, attempts + 1, outs, fallbackLogged, called)

\* ModelManager.getModelDecision for a model with config and portfolio
getModelDecision(outs, fallbackLogged) == retryLoop(0, 0, outs, fallbackLogged, NoEffects)

\* one call getModelDecision(modelId, marketData)
DecisionCall ==
    /\ pc = "start"
    /\ checked = NoCall
    /\ \E outs \in [1..(maxRetries + 1) -> AttemptOutcomes], fallbackLogged \in BOOLEAN :
         checked' = [fn |-> "getModelDecision", outs |-> outs,
                     fallbackLogged |-> fallbackLogged,
                     result |-> getModelDecision(outs, fallbackLogged)]
    /\ UNCHANGED <<pc, stub, firstRun, conc, startDay, endDay, intervalMinutes, status, statusLog,
                   runTradingDays, current, cycle, tradingDaysProcessed, committedDays,
                   lastPortfolios, runModels, runSnapshots, sinkVars, cycleVars, pmVars,
                   ledgerVars, tradeVars, snapVars, minCashLimit, priceVars>>

\* ------------------------------------------------- the simulated cycle times
\* runner.ts line 94: 9 * 60 + 30, the minute of the day of a day's first cycle
firstCycleMinute == 570

\* data-service.ts lines 304-305: 9:15 and 15:30 as minutes of the day
marketOpen == 555
marketClose == 930

\* runner.ts line 94: const cycleTime = 9 * 60 + 30 + (cycle - 1) * intervalMinutes
cycleTime(cyc, interval) == firstCycleMinute + (cyc - 1) * interval

\* the for loop of runner.ts line 91 computes the time of one of its cycles
CycleTimeCall ==
    /\ pc = "start"
    /\ checked = NoCall
    /\ \E interval \in 1..(DayMinutes - 1) :
         \E cyc \in 1..cyclesPerDayOf(interval) :
            checked' = [fn |-> "cycleTime", intervalMinutes |-> interval, cycle |-> cyc,
                        result |-> cycleTime(cyc, interval)]
    /\ UNCHANGED <<pc, stub, firstRun, conc, startDay, endDay, intervalMinutes, status, statusLog,
                   runTradingDays, current, cycle, tradingDaysProcessed, committedDays,
                   lastPortfolios, runModels, runSnapshots, sinkVars, cycleVars, pmVars,
                   ledgerVars, tradeVars, snapVars, minCashLimit, priceVars>>

\* ------------------------------------- two requests trading at the same time
\* route.ts lines 8-52 start a run for every GET; the runs share the Portfolio
\* and Position rows of the agents. Two of them are each at a trade of the
\* first agent
Procs == {1, 2}

\* the orders the two requests' decisions are
ConcDecisions ==
    {[action |-> a, ticker |-> "T1", shares |-> n, leverage |-> 1] :
        a \in {"BUY", "SELL"}, n \in 1..MaxShares}

\* both runs have reached processModel of the first agent
ConcStart ==
    /\ pc = "start"
    /\ ~conc.started
    /\ conc' = [started |-> TRUE,
                before |-> [cash |-> cash[activeModels[1]],
                            positions |-> positions[activeModels[1]]],
                proc |-> [p \in Procs |->
                            [pc |-> "validate", decision |-> NoDecision, price |-> 0,
                             read |-> NoPositions]]]
    /\ UNCHANGED <<pc, stub, firstRun, checked, startDay, endDay, intervalMinutes, status,
                   statusLog, runTradingDays, current, cycle, tradingDaysProcessed,
                   committedDays, lastPortfolios, runModels, runSnapshots, sinkVars,
                   cycleVars, pmVars, ledgerVars, tradeVars, snapVars, minCashLimit,
                   priceVars>>

\* what the steps of the two requests leave alone
ConcUnchanged ==
    UNCHANGED <<pc, stub, firstRun, checked, startDay, endDay, intervalMinutes, status,
                statusLog, runTradingDays, current, cycle, tradingDaysProcessed,
                committedDays, lastPortfolios, runModels, runSnapshots, sinkVars,
                cycleVars, pmVars, tradeVars, snapVars, minCashLimit, priceVars>>

\* lines 735-819 and 843-859: validateDecision reads the rows and accepts or
\* rejects the decision (a rejected one becomes HOLD: no trade); an accepted
\* one is filled by the broker at the quoted price
ConcValidate ==
    /\ conc.started
    /\ \E p \in Procs, d \in ConcDecisions, quote \in Prices :
         LET m == activeModels[1]
             held == IF d.ticker \in DOMAIN positions[m]
                     THEN positions[m][d.ticker].shares ELSE 0
             total == cash[m] + held * quote
             v == validateDecision(m, d, cash[m], positions[m], quote, total)
         IN  /\ conc.proc[p].pc = "validate"
             /\ conc' = [conc EXCEPT
                           !.proc[p] = IF v.isValid
                                       THEN [@ EXCEPT !.pc = "read", !.decision = d,
                                                      !.price = quote]
                                       ELSE [@ EXCEPT !.pc = "held"]]
    /\ UNCHANGED ledgerVars
    /\ ConcUnchanged

\* lines 889-894: updatePortfolio reads the portfolio with its positions
ConcRead ==
    /\ conc.started
    /\ \E p \in Procs :
         /\ conc.proc[p].pc = "read"
         /\ conc' = [conc EXCEPT !.proc[p].pc = "cash",
                                 !.proc[p].read = positions[activeModels[1]]]
    /\ UNCHANGED ledgerVars
    /\ ConcUnchanged

\* lines 900-905 and 934-939: cashBalance: { decrement } or { increment }
ConcCash ==
    /\ conc.started
    /\ \E p \in Procs :
         LET m == activeModels[1]
             q == conc.proc[p]
         IN  /\ q.pc = "cash"
             /\ cash' = [cash EXCEPT
                           ![m] = updatePortfolio(q.decision, @, q.read, q.price).cash]
             /\ conc' = [conc EXCEPT !.proc[p].pc = "position"]
    /\ UNCHANGED positions
    /\ ConcUnchanged

\* lines 908-929 and 942-961: the Position row found by the read of lines
\* 889-892 is updated with shares and avgCost computed from that read, deleted,
\* or decremented; a row that is not there any more makes the write throw; a
\* ticker that was not in the read is created (BUY) or left alone (SELL)
ConcPosition ==
    /\ conc.started
    /\ \E p \in Procs :
         LET m == activeModels[1]
             q == conc.proc[p]
             d == q.decision
             t == d.ticker
             after == positionsAfter(d, q.read, q.price)
             rows == positions[m]
         IN  /\ q.pc = "position"
             /\ IF t \in DOMAIN q.read /\ t \notin DOMAIN rows
                THEN /\ conc' = [conc EXCEPT !.proc[p].pc = "threw"]
                     /\ UNCHANGED positions
                ELSE /\ conc' = [conc EXCEPT !.proc[p].pc = "done"]
                     /\ positions' =
                          [positions EXCEPT ![m] =
                             IF t \notin DOMAIN q.read
                             THEN IF d.action = "BUY"
                                  THEN [u \in DOMAIN rows \cup {t} |->
                                           IF u = t THEN after[t] ELSE rows[u]]
                                  ELSE rows
                             ELSE IF d.action = "BUY"
                             THEN [rows EXCEPT ![t] = after[t]]
                             ELSE IF q.read[t].shares = d.shares
                             THEN [u \in DOMAIN rows \ {t} |-> rows[u]]
                             ELSE [rows EXCEPT ![t].shares = @ - d.shares]]
    /\ UNCHANGED cash
    /\ ConcUnchanged

ConcNext ==
    \/ ConcStart
    \/ ConcValidate
    \/ ConcRead
    \/ ConcCash
    \/ ConcPosition

Next ==
    \/ Abort
    \/ CreateRun
    \/ RunStarted
    \/ DayLoopHead
    \/ CycleHead
    \/ CycleStart
    \/ CycleEnd
    \/ CycleReturn
    \/ ModelFailed
    \/ ModelProcessed
    \/ ProcessModelBegin
    \/ RequestDecision
    \/ ReceiveAndValidate
    \/ AfterLoop
    \/ SubmitOrder
    \/ PublishTrade
    \/ CreateSnapshot
    \/ EndOfDay
    \/ EodPublish
    \/ AfterDayLoop
    \/ PublishRunComplete
    \/ Catch

Spec == Init /\ [][Next]_vars

\* the same program, one cycle
CycleSpec == CycleInit /\ [][Next]_vars

\* the same program, runs of several days with at most one cycle
RunSpec == RunInit /\ [][Next]_vars

\* the same program, a day of two cycles
PriceSpec == PriceInit /\ [][Next]_vars

\* the same program under the scheduling of the event loop: a continuation
\* that can run does run, so the program takes its next step whenever an
\* awaited call has returned
LiveSpec == LiveInit /\ [][Next]_vars /\ WF_vars(Next)

\* two requests at a trade of the first agent, on a seeded ledger or one an
\* earlier run left behind
ConcSpec == CycleInit /\ [][ConcNext]_vars

\* the cycle times of a day for every interval below a full day
TimeSpec == ValidateInit /\ [][CycleTimeCall]_vars

\* validateDecision called on its own with arguments from bounded sets
ValidateSpec == ValidateInit /\ [][ValidateCall]_vars

\* getModelDecision called on its own with pass outcomes from bounded sets
DecisionSpec == ValidateInit /\ [][DecisionCall]_vars

\* two executions one after the other behind the same fixed stubs
ReplayNext == Next \/ SecondRun
ReplaySpec == ReplayInit /\ [][ReplayNext]_vars

\* ------------------------------------------------------------ type check
TypeOK ==
    /\ status \in {"NONE", "RUNNING", "COMPLETED", "FAILED", "CANCELLED"}
    /\ Len(statusLog) <= 3
    /\ agentIdx \in 0..Len(activeModels)
    /\ attempt \in 0..(maxAttempts + 1)
    /\ \A m \in ModelIds : \A t \in DOMAIN positions[m] : positions[m][t].shares > 0

\* ================================================================ claims
Terminal == {"COMPLETED", "FAILED", "CANCELLED"}

\* shares of ticker t held in the positions pos
Held(pos, t) == IF t \in DOMAIN pos THEN pos[t].shares ELSE 0

\* the Trade row of the executeTrade call in progress has its final status
TradeEnded == trade.status \in {"FILLED", "REJECTED"}

\* C1: the ledger is changed during executeTrade if and only if the Trade ends
\* FILLED: a Trade that ends REJECTED leaves cash and positions as they were
\* when the Trade row was created, and a Trade that ends FILLED has had its
\* cash and its position effect applied.
C1_LedgerChangedIffFilled ==
    TradeEnded =>
        LET m == trade.modelId
            sign == IF trade.action = "BUY" THEN 1 ELSE -1
        IN  /\ trade.status = "REJECTED" =>
                  (cash[m] = tradePre.cash /\ positions[m] = tradePre.positions)
            /\ trade.status = "FILLED" =>
                  /\ cash[m] = tradePre.cash - sign * trade.shares * trade.price
                  /\ Held(positions[m], trade.ticker)
                        = Held(tradePre.positions, trade.ticker) + sign * trade.shares

\* C2: the Run is created RUNNING and its status is written exactly once more,
\* to a terminal status; no later step writes another status.
C2_StatusWrittenOnce ==
    /\ Len(statusLog) <= 2
    /\ Len(statusLog) >= 1 => statusLog[1] = "RUNNING"
    /\ Len(statusLog) = 2 => statusLog[2] \in Terminal

\* C3: when the abort signal fired while the day loop was running, the run
\* ends CANCELLED (never COMPLETED or FAILED) and no rank is written.
C3_AbortEndsCancelled ==
    (abortedInLoop /\ pc \in FinalPcs) =>
        (status = "CANCELLED" /\ \A m \in ModelIds : runModels[m].rank = 0)

\* C4: a Run written CANCELLED carries as tradingDays the number of days whose
\* end-of-day transaction was committed.
C4_CancelledCountsCommittedDays ==
    status = "CANCELLED" => runTradingDays = committedDays

\* C5: for a Trade that ends FILLED, the agent's cash after the trade is the
\* cash before it minus shares * fill price for a BUY and plus shares * fill
\* price for a SELL.
C5_FilledCashEffect ==
    trade.status = "FILLED" =>
        /\ trade.action = "BUY" =>
              cash[trade.modelId] = tradePre.cash - trade.shares * trade.price
        /\ trade.action = "SELL" =>
              cash[trade.modelId] = tradePre.cash + trade.shares * trade.price

\* a sale of held shares was filled at a price and has changed the cash
C5_FilledSaleReached ==
    /\ trade.status = "FILLED"
    /\ trade.action = "SELL"
    /\ trade.price > 0
    /\ cash[trade.modelId] > tradePre.cash

\* C6: a ledger's cash is never below 0, or, once a leveraged BUY was filled,
\* below -(leverage - 1) * initialCapital for the leverage of that BUY.
C6_CashWithinLimit == \A m \in ModelIds : cash[m] >= minCashLimit[m]

\* C7: when a cycle has gone through its agents, each active agent has exactly
\* one snapshot written in that cycle.
C7_OneSnapshotPerAgent ==
    pc = "cycleEnd" => \A m \in ModelIds : snapsThisCycle[m] = 1

C10_FetchFailureFailsRun ==
    (dataFetchFailed /\ pc \in FinalPcs) => status = "FAILED"

\* C11: a step that writes the Run FAILED or CANCELLED leaves every
\* BacktestRunModel and BacktestRunSnapshot row of the run as it was.
C11_TerminalWriteKeepsRows ==
    [][(status' # status /\ status' \in {"FAILED", "CANCELLED"}) =>
          (runModels' = runModels /\ runSnapshots' = runSnapshots)]_vars

\* the Run is FAILED after the rows of a day were committed
C11_FailedAfterCommitReached ==
    /\ status = "FAILED"
    /\ committedDays >= 1
    /\ \A m \in ModelIds : runModels[m].exists /\ <<m, StartDay + 1>> \in runSnapshots

\* position of agent m in the order in which the rows of a run are inserted
InsertedAt(m) == CHOOSE i \in 1..Len(activeModels) : activeModels[i] = m

\* C12: when the Run is COMPLETED the ranks of its BacktestRunModel rows are
\* exactly 1..n, a row of greater final total value has the smaller rank, and
\* of two rows of equal value the one inserted first has the smaller rank.
C12_CompletedRunRanked ==
    status = "COMPLETED" =>
        LET rows == {m \in ModelIds : runModels[m].exists}
        IN  /\ {runModels[m].rank : m \in rows} = 1..Cardinality(rows)
            /\ \A a, b \in rows :
                   \/ runModels[a].totalValue > runModels[b].totalValue
                   \/ /\ runModels[a].totalValue = runModels[b].totalValue
                      /\ InsertedAt(a) < InsertedAt(b)
                   => runModels[a].rank < runModels[b].rank

\* a COMPLETED run in which the agent inserted second has the greater value
C12_SecondInsertedRanksFirstReached ==
    /\ status = "COMPLETED"
    /\ runModels["m1"].exists /\ runModels["m2"].exists
    /\ runModels["m2"].totalValue > runModels["m1"].totalValue
    /\ runModels["m2"].rank = 1

\* C13: a step that only publishes an event ('trade', 'eod_summary',
\* 'run_complete') leaves the core where an accepted publish leaves it: the
\* snapshot follows the trade, the next day follows the end-of-day summary,
\* the return follows the final event, whatever the sink does.
C13_PublishNeverDivertsCore ==
    [][/\ (pc = "pmPublishTrade" /\ pc' # pc) => pc' = "pmSnapshot"
       /\ (pc = "eodPublish" /\ pc' # pc) => pc' = "dayLoop"
       /\ (pc = "finalPublish" /\ pc' # pc) => pc' = "done"]_vars

\* C14: behind the same fixed stubs, a second execution over the same range
\* and interval that completes after a first one completed has created the
\* same sequence of trades and written the same ranks.
C14_ReplayGivesSameTradesAndRanking ==
    (firstRun.finished /\ firstRun.status = "COMPLETED"
        /\ pc = "done" /\ status = "COMPLETED") =>
        /\ runTrades = firstRun.trades
        /\ \A m \in ModelIds : runModels[m].rank = firstRun.ranks[m]

\* C15: the PortfolioSnapshot written for an agent has totalValue = cashBalance
\* + the sum over every position the agent holds of shares * a price of the
\* ticker: every held position is in the sum.
C15_SnapshotCountsEveryPosition ==
    snapshot # NoSnapshot =>
        LET m == snapshot.modelId
            held == DOMAIN positions[m]
        IN  \E p \in [held -> Prices] :
               snapshot.totalValue
                  = cash[m] + SumOver(held, [t \in held |-> positions[m][t].shares * p[t]])

\* the rules validateDecision applies to the checked call, in the order the
\* claim lists them, each with whether it fails and the reason it gives
CheckedRules ==
    LET d == checked.decision
        pos == checked.positions
        cost == checked.quote * d.shares
        common ==
            <<[fails |-> d.ticker = "NULL", reason |-> "Ticker is required for BUY/SELL"],
              [fails |-> d.ticker \notin Watchlist, reason |-> "not in watchlist"],
              [fails |-> d.shares <= 0, reason |-> "Shares must be greater than 0"]>>
        buy ==
            <<[fails |-> d.leverage \notin {1, 5, 10, 20}, reason |-> "Invalid leverage"],
              [fails |-> checked.cashBalance - cost < 0 - (d.leverage - 1) * InitialCapital,
               reason |-> "Insufficient margin"],
              [fails |-> IF checked.totalValue > 0
                         THEN cost * MaxPositionDen > MaxPositionNum * checked.totalValue
                         ELSE checked.totalValue = 0,
               reason |-> "Position size exceeds limit"]>>
        sell ==
            <<[fails |-> Held(pos, d.ticker) = 0, reason |-> "No position to sell"],
              [fails |-> Held(pos, d.ticker) < d.shares, reason |-> "Insufficient shares"]>>
    IN  common \o (IF d.action = "BUY" THEN buy ELSE sell)

\* C16: validateDecision accepts every HOLD; for a BUY or a SELL (whose quote
\* could be read) it applies the rules missing ticker, ticker not in the
\* watchlist, shares <= 0, then leverage tier, margin, position size for a BUY
\* or position held, shares held for a SELL, and answers the reason of the
\* first rule that fails, or accepts when none fails.
C16_FirstFailingRuleDecides ==
    (checked.fn = "validateDecision" /\ ~checked.result.threw) =>
        LET failing == {i \in DOMAIN CheckedRules : CheckedRules[i].fails}
            first == CHOOSE i \in failing : \A j \in failing : i <= j
        IN  IF checked.decision.action = "HOLD" \/ failing = {}
            THEN checked.result.isValid
            ELSE ~checked.result.isValid
                 /\ checked.result.reason = CheckedRules[first].reason

\* a BUY that fails both the margin rule and the position-size rule is
\* rejected with the reason of the margin rule
C16_MarginBeforeSizeReached ==
    /\ checked.fn = "validateDecision"
    /\ checked.decision.action = "BUY"
    /\ CheckedRules[5].fails /\ CheckedRules[6].fails
    /\ checked.result.reason = "Insufficient margin"

\* C17: validateDecision rejects a SELL that asks for more shares than the
\* agent holds of the ticker, holding none included.
C17_OversellRejected ==
    (checked.fn = "validateDecision" /\ checked.decision.action = "SELL"
        /\ checked.decision.shares > Held(checked.positions, checked.decision.ticker)) =>
        ~checked.result.isValid

\* a SELL of one share more than held was rejected for the shares held
C17_OneShareTooManyReached ==
    /\ checked.fn = "validateDecision"
    /\ checked.decision.action = "SELL"
    /\ Held(checked.positions, checked.decision.ticker) >= 1
    /\ checked.decision.shares = Held(checked.positions, checked.decision.ticker) + 1
    /\ checked.result.reason = "Insufficient shares"

\* C18: validateDecision rejects a BUY with leverage L (whose quote could be
\* read) when cashBalance - quote * shares < -(L - 1) * initialValue.
C18_OverBorrowingRejected ==
    (checked.fn = "validateDecision" /\ ~checked.result.threw
        /\ checked.decision.action = "BUY"
        /\ checked.cashBalance - checked.quote * checked.decision.shares
              < 0 - (checked.decision.leverage - 1) * InitialCapital) =>
        ~checked.result.isValid

\* a BUY at leverage 5 one unit beyond the borrowing limit was rejected for its
\* margin
C18_MarginRejectedReached ==
    /\ checked.fn = "validateDecision"
    /\ checked.decision.action = "BUY"
    /\ checked.decision.leverage = 5
    /\ checked.cashBalance - checked.quote * checked.decision.shares
          = 0 - 4 * InitialCapital - 1
    /\ checked.result.reason = "Insufficient margin"

\* C20: after an accepted BUY (by an agent whose cash is not negative) the
\* position in the ticker, the shares held plus the shares bought valued at the
\* quote of the validation, is at most maxPositionSize of the total portfolio
\* value.
C20_PositionWithinSizeLimit ==
    (checked.fn = "validateDecision" /\ checked.decision.action = "BUY"
        /\ checked.cashBalance >= 0 /\ checked.result.isValid) =>
        (Held(checked.positions, checked.decision.ticker) + checked.decision.shares)
              * checked.quote * MaxPositionDen
           <= MaxPositionNum * checked.totalValue

\* C19: one call of getModelDecision makes at most 3 attempts; when all of
\* them fail (and the failure could be logged) it returns the fallback HOLD,
\* ticker null and shares 0, whose reasoning records the failure; the failure
\* of an attempt is never thrown to the caller.
C19_ThreeAttemptsThenFallbackHold ==
    checked.fn = "getModelDecision" =>
        LET r == checked.result
            allFail == \A i \in 1..3 : checked.outs[i].kind \notin {"ok", "toolOk"}
        IN  /\ r.attempts <= 3
            /\ (allFail /\ checked.fallbackLogged) =>
                  /\ ~r.threw
                  /\ r.decision.action = "HOLD"
                  /\ r.decision.ticker = "NULL"
                  /\ r.decision.shares = 0
                  /\ r.reasoning = "Failed to get valid decision after maxRetries attempts"
            /\ r.threw => (allFail /\ ~checked.fallbackLogged /\ r.error = "decisionLog.create")

\* three attempts failed, the last one in the parser, and the fallback HOLD
\* was returned
C19_FallbackAfterParseFailuresReached ==
    /\ checked.fn = "getModelDecision"
    /\ \A i \in 1..3 : checked.outs[i].kind \notin {"ok", "toolOk"}
    /\ checked.outs[3].kind = "parseFails"
    /\ checked.result.attempts = 3
    /\ ~checked.result.threw
    /\ checked.result.decision = HoldDecision

\* C21: a Trade row is created PENDING and is given its final status once: a
\* row that was written FILLED is not written REJECTED afterwards (nor the
\* other way round), also when the ledger update after the broker call fails
C21_TerminalStatusWrittenOnce ==
    trade # NoTrade =>
        /\ trade.written[1] = "PENDING"
        /\ Len(trade.written) <= 2

\* C22: one DecisionLog row is written for every attempt getModelDecision
\* makes, successful or failed: a call that made k attempts has written k rows
C22_OneRecordPerAttempt ==
    checked.fn = "getModelDecision" =>
        checked.result.logged = checked.result.attempts

\* C23: one call of getModelDecision makes at most one analysis round trip,
\* with one extra provider call; when the second response is parsed by
\* neither parser the call ends with the fallback HOLD and the provider is
\* not called again
C23_OneToolRoundTrip ==
    checked.fn = "getModelDecision" =>
        LET r == checked.result
            firstTool == CHOOSE i \in 1..(r.attempts + 1) :
                            i = r.attempts + 1 \/ checked.outs[i].kind \in ToolKinds
        IN  /\ r.rounds <= 1
            /\ r.rounds = 1 => r.calls = r.attempts + 1
            /\ (firstTool <= r.attempts /\ checked.outs[firstTool].kind = "toolParseFails"
                    /\ checked.fallbackLogged) =>
                  /\ r.attempts = firstTool
                  /\ r.decision = HoldDecision

\* what a fill does to the Position rows of the Trade's agent: a BUY of a
\* ticker not held creates the position with the bought shares at the fill
\* price; a BUY of a held ticker adds the shares and (in exact arithmetic)
\* avgCost * shares = old cost basis + bought shares * fill price; a SELL of
\* fewer shares than held takes them off and leaves avgCost; a SELL of all
\* shares deletes the position; the other positions stay
FillApplied ==
    LET t == trade.ticker
        old == tradePre.positions
        new == positions[trade.modelId]
    IN  /\ (trade.action = "BUY" /\ t \notin DOMAIN old) =>
              /\ t \in DOMAIN new
              /\ new[t] = [shares |-> trade.shares, avgCost |-> Frac(trade.price, 1)]
        /\ (trade.action = "BUY" /\ t \in DOMAIN old) =>
              /\ t \in DOMAIN new
              /\ new[t].shares = old[t].shares + trade.shares
              /\ new[t].avgCost.n * new[t].shares * old[t].avgCost.d
                   = new[t].avgCost.d
                       * (old[t].avgCost.n * old[t].shares
                            + trade.shares * trade.price * old[t].avgCost.d)
        /\ (trade.action = "SELL" /\ t \in DOMAIN old /\ trade.shares < old[t].shares) =>
              /\ t \in DOMAIN new
              /\ new[t] = [shares |-> old[t].shares - trade.shares,
                           avgCost |-> old[t].avgCost]
        /\ (trade.action = "SELL" /\ t \in DOMAIN old /\ trade.shares = old[t].shares) =>
              t \notin DOMAIN new
        /\ \A u \in (DOMAIN old \cup DOMAIN new) \ {t} :
              u \in DOMAIN old /\ u \in DOMAIN new /\ new[u] = old[u]

C25_EveryCountedDayRunsACycle ==
    (pc = "eod" /\ intervalMinutes > 0) =>
        /\ cycle - 1 >= 1
        /\ cycle - 1 <= (IF intervalMinutes < DayMinutes
                         THEN SessionMinutes \div intervalMinutes ELSE 1)

\* C26: a run has at most one BacktestRunModel row per agent, present once a
\* day was committed; after d fully processed (committed) trading days every
\* agent has exactly d BacktestRunSnapshot rows, one per trading day processed
C26_OneResultRowAndOneSnapshotPerDay ==
    \A m \in ModelIds :
        /\ runModels[m].exists <=> committedDays >= 1
        /\ Cardinality({s \in runSnapshots : s[1] = m}) = committedDays
        /\ \A s \in runSnapshots :
              s[2] \in startDay..current /\ ~isWeekend(s[2])

\* two trading days were committed and the second agent has its two snapshot
\* rows, one for each of the days
C26_TwoDaysTwoSnapshotsReached ==
    /\ committedDays = 2
    /\ {s[2] : s \in {r \in runSnapshots : r[1] = activeModels[2]}} = {2, 3}
    /\ runModels[activeModels[2]].exists

\* C28: the price the engine's PortfolioCalculator uses in a cycle is not older
\* than the cycle's market data: when a snapshot is valued with a price that
\* was cached in an earlier cycle, that price is the one of the market data of
\* the cycle in progress
C28_NoStaleCachedPrice ==
    [][(pc = "pmSnapshot" /\ pc' = "pmDone")
       => \A t \in Watchlist \cap DOMAIN positions[Model] :
             (marketData[t] # 0 /\ enginePriceCache[t] # 0 /\ t \notin freshInCache) =>
                snapshot'.positionsValue = positions[Model][t].shares * marketData[t]]_vars

\* C29: for every intervalMinutes from 1 to 1439, every cycle time the runner
\* generates lies inside the trading session, not before 09:15 and not after
\* 15:30
C29_CycleTimeInsideSession ==
    checked.fn = "cycleTime" =>
        (checked.result >= marketOpen /\ checked.result <= marketClose)

\* C30: every run started through runBacktestLive eventually has a terminal
\* status, for every interval the route can pass on (0 and negative ones
\* included), when each awaited call returns; stated for the runs whose client
\* stays connected
C30_RunEventuallyTerminal == <>(signalAborted \/ status \in Terminal)

\* what the filled trade of request p adds to the shares held
SharesOf(p) ==
    IF conc.proc[p].pc # "done" THEN 0
    ELSE IF conc.proc[p].decision.action = "BUY" THEN conc.proc[p].decision.shares
    ELSE 0 - conc.proc[p].decision.shares

\* C27: when two runs trade for the same agent at the same time, no
\* interleaving of their validate, execute and ledger-update steps leaves a
\* position with shares <= 0, sells more than is held, or loses a cash or
\* position update: once both have applied their trades, the ledger holds the
\* cash and the shares it held before plus the effect of both trades
C27_ConcurrentTradesKeepLedger ==
    conc.started =>
        LET m == activeModels[1] IN
        /\ \A t \in DOMAIN positions[m] : positions[m][t].shares > 0
        /\ (\A p \in Procs : conc.proc[p].pc \in {"done", "held"}) =>
              /\ Held(positions[m], "T1") =
                    Held(conc.before.positions, "T1") + SharesOf(1) + SharesOf(2)
              /\ cash[m] = conc.before.cash
                    - SharesOf(1) * conc.proc[1].price - SharesOf(2) * conc.proc[2].price

====
